---- MODULE Spec2Model ----
(***************************************************************************)
(* A model of cricket_analytics_app.py: one Streamlit script that loads an *)
(* uploaded CSV, filters it by a year range and a player selection, and   *)
(* renders one of three pages.  A render pass is the script run from top  *)
(* to bottom; its steps are the actions LoadData, Sidebar, ApplyFilters   *)
(* and the three page actions.                                             *)
(*                                                                         *)
(* Numbers are exact rationals [n, d] (d > 0); the missing value NaN is   *)
(* the record with d = 0.  The calls into streamlit and plotly are not    *)
(* part of the script: a chart call is recorded as a chart descriptor, a  *)
(* message call as a message, and both are taken to return normally.      *)
(***************************************************************************)
EXTENDS Integers, Sequences, FiniteSets, TLC

VARIABLES
    uploaded_file,      \* the file in the uploader widget (line 41)
    pc,                 \* position of the script within a render pass
    df,                 \* load_data's result (line 45)
    selected_years,     \* the year slider's value (lines 56-63)
    selected_players,   \* the player multiselect's value (line 67)
    filtered_df,        \* lines 75-81
    page,               \* the page radio (line 84)
    viz_type,           \* the visualization selectbox of the page
    primary_metric,     \* line 127
    secondary_metric,   \* line 134
    metrics_sel,        \* the metric multiselect of the page's branch
    comparison_method,  \* line 332
    comparison_df,      \* lines 341-348
    messages,           \* st.success / st.warning / st.error calls of the pass
    charts,             \* st.plotly_chart calls of the pass, in order
    dataframes,         \* st.dataframe / st.write calls of the pass that show a table
    uncaught            \* the exception that ended the pass, "" if none

vars == <<uploaded_file, pc, df, selected_years, selected_players, filtered_df,
          page, viz_type, primary_metric, secondary_metric, metrics_sel,
          comparison_method, comparison_df, messages, charts, dataframes, uncaught>>

(***************************************************************************)
(* Bounds of the model.                                                    *)
(***************************************************************************)
MaxRows == 2

(***************************************************************************)
(* Numbers.                                                                *)
(***************************************************************************)
NaN == [n |-> 0, d |-> 0]

IsNaN(x) == x.d = 0

Abs(i) == IF i < 0 THEN -i ELSE i

RECURSIVE GCD(_, _)
GCD(a, b) == IF b = 0 THEN a ELSE GCD(b, a % b)

\* the rational p/q in lowest terms, q > 0
Rat(p, q) ==
    LET g == GCD(Abs(p), q)
    IN  [n |-> p \div g, d |-> q \div g]

Num(i) == [n |-> i, d |-> 1]

Le(x, y) == x.n * y.d <= y.n * x.d

Add(x, y) == Rat(x.n * y.d + y.n * x.d, x.d * y.d)

\* Python's int() of a float: truncation toward zero
IntOf(x) == IF x.n >= 0 THEN x.n \div x.d ELSE -((-x.n) \div x.d)

Range(s) == {s[i] : i \in 1..Len(s)}

(***************************************************************************)
(* The uploaded file.  A CSV file is its header (cols: which of the        *)
(* columns Player_Name, Year, Runs_Scored it has, in that order; columns   *)
(* the script does not name are left out) and its rows of raw cells.  A    *)
(* raw cell is a number or a text that is no number; a name cell is a      *)
(* string, the empty string being the empty field, which read_csv reads as *)
(* missing.  The cell of a column the header does not have is Absent /     *)
(* NoName.  Runs_Scored stands for the nine columns of numeric_cols.       *)
(***************************************************************************)
NoName == ""

RawNum(x) == [t |-> "num", v |-> x]

RawText == [t |-> "text", v |-> NaN]

Absent == [t |-> "absent", v |-> NaN]

Names == {"A", "B", NoName}

RawYears == {RawNum(Num(2020)), RawNum(Rat(4041, 2)), RawNum(Num(2021)), RawText}

RawRuns == {RawNum(Num(10)), RawText}

AllCols == <<"Player_Name", "Year", "Runs_Scored">>

RawRows(cols) ==
    [Player_Name : IF "Player_Name" \in cols THEN Names ELSE {NoName},
     Year        : IF "Year" \in cols THEN RawYears ELSE {Absent},
     Runs_Scored : IF "Runs_Scored" \in cols THEN RawRuns ELSE {Absent}]

RawRow(p, y, r) ==
    [Player_Name |-> p, Year |-> RawNum(Num(y)), Runs_Scored |-> RawNum(Num(r))]

\* the tables the testable properties of the design name
ScenarioRows == <<RawRow("A", 2020, 100), RawRow("A", 2021, 150), RawRow("B", 2020, 80)>>

ReductionRows == <<RawRow("A", 2020, 10), RawRow("A", 2021, 20), RawRow("B", 2020, 5)>>

NoFile == [kind |-> "none", cols |-> {}, rows |-> <<>>]

Garbage == [kind |-> "garbage", cols |-> {}, rows |-> <<>>]

Csv(cols, rows) == [kind |-> "csv", cols |-> cols, rows |-> rows]

Files ==
    {Garbage}
    \cup UNION {{Csv(cols, rows) : rows \in UNION {[1..k -> RawRows(cols)] : k \in 0..MaxRows}}
                : cols \in SUBSET Range(AllCols)}
    \cup {Csv(Range(AllCols), ScenarioRows), Csv(Range(AllCols), ReductionRows)}

(***************************************************************************)
(* load_data (lines 8-31).                                                 *)
(***************************************************************************)
\* pd.to_numeric(errors='coerce') of one cell
to_numeric(cell) == IF cell.t = "num" THEN cell.v ELSE NaN

NoTable == [loaded |-> FALSE, cols |-> {}, dtypes |-> <<>>, rows |-> <<>>]

\* a DataFrame: its columns, the dtype of each column of AllCols it has, its rows
Table(cols, dtypes, rows) == [loaded |-> TRUE, cols |-> cols, dtypes |-> dtypes, rows |-> rows]

IsInteger(x) == x.d = 1

\* the dtype read_csv gives the name column: float64 when every field of it is empty
NameDtype(rows) ==
    IF rows # <<>> /\ \A i \in 1..Len(rows) : rows[i].Player_Name = NoName
    THEN "float64" ELSE "object"

\* the dtype pd.to_numeric gives a coerced column
NumericDtype(cells) ==
    IF \A i \in 1..Len(cells) : IsInteger(cells[i]) THEN "int64" ELSE "float64"

\* lines 18-24: the coercion of the numeric columns and of Year
CoerceRow(cols, raw) ==
    [Player_Name |-> raw.Player_Name,
     Year        |-> IF "Year" \in cols THEN to_numeric(raw.Year) ELSE NaN,
     Runs_Scored |-> IF "Runs_Scored" \in cols THEN to_numeric(raw.Runs_Scored) ELSE NaN]

HasYear(row) == ~IsNaN(row.Year)

\* dropna without its subset: a row with any missing number is dropped
dropna_any(rows) == SelectSeq(rows, LAMBDA row : ~IsNaN(row.Year) /\ ~IsNaN(row.Runs_Scored))

\* line 26: df.dropna(subset=['Year'])
dropna_Year(rows) == SelectSeq(rows, HasYear)

load_data(file) ==
    IF file.kind # "csv" THEN NoTable
    ELSE LET coerced == [i \in 1..Len(file.rows) |-> CoerceRow(file.cols, file.rows[i])]
             dtypes  == [i \in 1..Len(AllCols) |->
                           CASE AllCols[i] \notin file.cols -> "absent"
                             [] AllCols[i] = "Player_Name" -> NameDtype(file.rows)
                             [] AllCols[i] = "Year" ->
                                  NumericDtype([k \in 1..Len(coerced) |-> coerced[k].Year])
                             [] OTHER ->
                                  NumericDtype([k \in 1..Len(coerced) |-> coerced[k].Runs_Scored])]
         IN  Table(file.cols, dtypes,
                   IF "Year" \in file.cols THEN dropna_Year(coerced) ELSE coerced)

(***************************************************************************)
(* The sidebar (lines 50-72) and the filter (lines 74-81).                 *)
(***************************************************************************)
MaxSelections == 6

Years(table) == {table.rows[i].Year : i \in 1..Len(table.rows)}

\* Series.min() / Series.max() of a column with no missing value; NaN when it is empty
MinOf(xs) == IF xs = {} THEN NaN ELSE CHOOSE x \in xs : \A y \in xs : Le(x, y)

MaxOf(xs) == IF xs = {} THEN NaN ELSE CHOOSE x \in xs : \A y \in xs : Le(y, x)

\* line 55
min_year(table) == IntOf(MinOf(Years(table)))

max_year(table) == IntOf(MaxOf(Years(table)))

\* the values the range slider of lines 56-60 can return
SliderValues(lo, hi) == {v \in (lo..hi) \X (lo..hi) : v[1] <= v[2]}

\* df['Player_Name'].unique()
unique_players(table) == {table.rows[i].Player_Name : i \in 1..Len(table.rows)}

\* the order of Python's sorted() on the names of the model
Alphabet == <<"A", "B">>

InOrder(order, S) == SelectSeq(order, LAMBDA x : x \in S)

\* sorted() raises TypeError when it compares a missing name (a float) with a string
SortedRaises(S) == NoName \in S /\ S # {NoName}

sorted(S) == IF S = {NoName} THEN <<NoName>> ELSE InOrder(Alphabet, S)

\* line 66
all_players(table) ==
    IF "Player_Name" \in table.cols THEN sorted(unique_players(table)) ELSE <<>>

\* the values the multiselect of lines 67-72 can return
PlayerSelections(options) ==
    {InOrder(options, S) : S \in {T \in SUBSET Range(options) : Cardinality(T) <= MaxSelections}}

\* Series.between(lo, hi), inclusive on both sides
between(x, lo, hi) == Le(Num(lo), x) /\ Le(x, Num(hi))

\* the membership test inverted
isin_inverted(x, values) == x \notin Range(values)

\* Series.isin(values)
isin(x, values) == x \in Range(values)

\* lines 75-81
apply_filters(table, years, players) ==
    IF "Year" \in table.cols
    THEN Table(table.cols, table.dtypes,
               SelectSeq(table.rows,
                         LAMBDA row : /\ between(row.Year, years[1], years[2])
                                      /\ isin(row.Player_Name, players)))
    ELSE Table(table.cols, table.dtypes,
               SelectSeq(table.rows, LAMBDA row : isin(row.Player_Name, players)))

(***************************************************************************)
(* The metric catalogue (lines 121-122, 319-320) and the group-by          *)
(* reductions (lines 197, 281, 341-348).                                   *)
(***************************************************************************)
\* [col for col in filtered_df.columns if filtered_df[col].dtype in ['int64', 'float64']]
available_metrics(table) ==
    SelectSeq(AllCols, LAMBDA col :
        /\ col \in table.cols
        /\ \E i \in 1..Len(AllCols) : AllCols[i] = col /\ table.dtypes[i] \in {"int64", "float64"})

\* the values a metric multiselect can return, in the order of its options
MetricSelections(options) == {InOrder(options, S) : S \in SUBSET Range(options)}

\* row[col] as a number; the name column is numeric only when every name is missing
Cell(row, col) ==
    CASE col = "Year" -> row.Year
      [] col = "Runs_Scored" -> row.Runs_Scored
      [] OTHER -> NaN

\* the keys of groupby('Player_Name'): sorted, rows with a missing name left out
group_keys(table) == InOrder(Alphabet, unique_players(table) \ {NoName})

\* the non-missing cells of one group in one column, in row order
group_values(table, name, col) ==
    LET rows == SelectSeq(table.rows,
                          LAMBDA row : row.Player_Name = name /\ ~IsNaN(Cell(row, col)))
    IN  [i \in 1..Len(rows) |-> Cell(rows[i], col)]

RECURSIVE SumSeq(_)
SumSeq(vals) == IF vals = <<>> THEN Num(0) ELSE Add(Head(vals), SumSeq(Tail(vals)))

RECURSIVE MaxSeq(_)
MaxSeq(vals) ==
    IF Len(vals) = 1 THEN vals[1]
    ELSE LET m == MaxSeq(Tail(vals)) IN IF Le(m, Head(vals)) THEN Head(vals) ELSE m

RECURSIVE MinSeq(_)
MinSeq(vals) ==
    IF Len(vals) = 1 THEN vals[1]
    ELSE LET m == MinSeq(Tail(vals)) IN IF Le(Head(vals), m) THEN Head(vals) ELSE m

\* the dispatch with the Mean branch calling sum
reduce_mean_as_sum(method, vals) ==
    CASE method \in {"Mean", "Sum"} -> SumSeq(vals)
      [] method = "Max"  -> IF vals = <<>> THEN NaN ELSE MaxSeq(vals)
      [] OTHER           -> IF vals = <<>> THEN NaN ELSE MinSeq(vals)

\* GroupBy.mean / sum / max / min of the non-missing values of one group: the sum
\* of no values is 0 (min_count=0), the other three are missing
reduce(method, vals) ==
    CASE method = "Mean" -> IF vals = <<>> THEN NaN
                            ELSE LET t == SumSeq(vals) IN Rat(t.n, t.d * Len(vals))
      [] method = "Sum"  -> SumSeq(vals)
      [] method = "Max"  -> IF vals = <<>> THEN NaN ELSE MaxSeq(vals)
      [] OTHER           -> IF vals = <<>> THEN NaN ELSE MinSeq(vals)

\* filtered_df.groupby('Player_Name')[metrics].<method>(): one row per key
groupby(table, metrics, method) ==
    LET keys == group_keys(table)
    IN  [i \in 1..Len(keys) |->
           [Player_Name |-> keys[i],
            vals |-> [j \in 1..Len(metrics) |->
                        reduce(method, group_values(table, keys[i], metrics[j]))]]]

\* agg[agg['Player_Name'] == player]; a missing name equals nothing
player_data(agg, player) ==
    SelectSeq(agg, LAMBDA row : row.Player_Name = player /\ player # NoName)

\* lines 201-208 and 405-412: .values[0] raises IndexError when the player has no row
RadarRaises(agg, players) ==
    \E i \in 1..Len(players) : player_data(agg, players[i]) = <<>>

\* the traces the radar loop adds, one for each selected player in turn
radar_traces(agg, players) ==
    [i \in 1..Len(players) |->
       [name |-> players[i], vals |-> player_data(agg, players[i])[1].vals]]

(***************************************************************************)
(* What a render pass shows.                                               *)
(***************************************************************************)
\* a message call: its level, its text, and the line of the script that makes it
Msg(level, text, line) == [level |-> level, text |-> text, line |-> line]

\* a plotly figure handed to st.plotly_chart: its kind, the columns bound to its
\* axes or dimensions, and the per-player data computed by the script
Chart(kind, metrics, traces) == [kind |-> kind, metrics |-> metrics, traces |-> traces]

\* what the rest of a pass adds to the page: messages, charts, tables, and the
\* exception that ended it if one did
Outcome(msgs, chs, dfs, exc, cmp) ==
    [messages |-> msgs, charts |-> chs, dataframes |-> dfs, uncaught |-> exc,
     comparison_df |-> cmp]

Pages == {"Data Explorer", "Performance Analysis", "Advanced Comparisons"}

VizTypes == {"Bar Chart", "Line Chart", "Scatter Plot", "Radar Chart", "Box Plot",
             "Violin Plot", "Combo Chart", "Heatmap", "Parallel Coordinates"}

ComparisonVizTypes == {"Bar Chart", "Line Chart", "Scatter Matrix"}

Methods == {"Mean", "Sum", "Max", "Min"}

\* lines 90-111
data_explorer == Outcome({}, <<>>, <<"filtered_df", "describe", "missing_data">>, "", <<>>)

\* lines 188-216
radar_branch(fdf, players, msel) ==
    IF Len(players) > 0
    THEN IF msel # <<>>
         THEN LET radar_df == groupby(fdf, msel, "Mean")
              IN  IF RadarRaises(radar_df, players)
                  THEN Outcome({}, <<>>, <<>>, "IndexError", <<>>)
                  ELSE Outcome({}, <<Chart("Radar Chart", msel, radar_traces(radar_df, players))>>,
                               <<>>, "", <<>>)
         ELSE Outcome({}, <<>>, <<>>, "", <<>>)
    ELSE Outcome({}, <<>>, <<>>, "", <<>>)

\* lines 272-292
heatmap_branch(fdf, players, msel) ==
    IF Len(players) > 1
    THEN IF msel # <<>>
         THEN Outcome({}, <<Chart("Heatmap", msel, groupby(fdf, msel, "Mean"))>>, <<>>, "", <<>>)
         ELSE Outcome({}, <<>>, <<>>, "", <<>>)
    ELSE Outcome({}, <<>>, <<>>, "", <<>>)

\* lines 294-309
parallel_branch(fdf, players, msel) ==
    IF Len(players) > 1
    THEN IF msel # <<>>
         THEN Outcome({}, <<Chart("Parallel Coordinates", msel, <<>>)>>, <<>>, "", <<>>)
         ELSE Outcome({}, <<>>, <<>>, "", <<>>)
    ELSE Outcome({}, <<>>, <<>>, "", <<>>)

\* the branch without its test of the secondary metric
secondary_branch_unguarded(viz, primary, secondary) ==
    Outcome({}, <<Chart(viz, <<primary, secondary>>, <<>>)>>, <<>>, "", <<>>)

\* lines 173-186 and 238-270
secondary_branch(viz, primary, secondary) ==
    IF secondary # "None"
    THEN Outcome({}, <<Chart(viz, <<primary, secondary>>, <<>>)>>, <<>>, "", <<>>)
    ELSE Outcome({IF viz = "Scatter Plot"
                  THEN Msg("warning", "Please select a secondary metric for scatter plot", 186)
                  ELSE Msg("warning", "Please select a secondary metric for combo chart", 270)},
                 <<>>, <<>>, "", <<>>)

\* lines 114-309
performance_analysis(fdf, players, viz, primary, secondary, msel) ==
    IF players = <<>>
    THEN Outcome({Msg("warning", "Please select at least one player", 118)}, <<>>, <<>>, "", <<>>)
    ELSE CASE viz \in {"Scatter Plot", "Combo Chart"} -> secondary_branch(viz, primary, secondary)
           [] viz = "Radar Chart" -> radar_branch(fdf, players, msel)
           [] viz = "Heatmap" -> heatmap_branch(fdf, players, msel)
           [] viz = "Parallel Coordinates" -> parallel_branch(fdf, players, msel)
           [] OTHER -> Outcome({}, <<Chart(viz, <<primary>>, <<>>)>>, <<>>, "", <<>>)

\* the kinds that take their metrics from a multiselect of their own
MetricSelectKinds == {"Radar Chart", "Heatmap", "Parallel Coordinates"}

\* does the branch of viz put its metric multiselect on the page (lines 189, 273, 295)
HasMetricSelect(viz, players) ==
    \/ viz = "Radar Chart" /\ Len(players) > 0
    \/ viz \in {"Heatmap", "Parallel Coordinates"} /\ Len(players) > 1

\* lines 339-425: the try block and its handler
comparison(fdf, players, cmetrics, method, viz) ==
    LET comparison_df_ == groupby(fdf, cmetrics, method)
        table_view == <<"comparison_df">>
        visual     == <<Chart(viz, cmetrics, comparison_df_)>>
    IN  IF RadarRaises(comparison_df_, players)
        THEN Outcome({Msg("error", "Error generating comparison", 423)}, visual,
                     table_view \o <<"debug_head">>, "", comparison_df_)
        ELSE Outcome({}, visual \o <<Chart("Radar Chart", cmetrics,
                                           radar_traces(comparison_df_, players))>>,
                     table_view, "", comparison_df_)

\* lines 312-425
advanced_comparisons(fdf, players, cmetrics, method, viz) ==
    IF Len(players) < 2
    THEN Outcome({Msg("warning", "Please select at least 2 players for comparison", 316)},
                 <<>>, <<>>, "", <<>>)
    ELSE IF available_metrics(fdf) = <<>>
         THEN Outcome({Msg("error", "No numeric metrics found for comparison", 323)},
                      <<>>, <<>>, "", <<>>)
         ELSE IF cmetrics # <<>>
              THEN comparison(fdf, players, cmetrics, method, viz)
              ELSE Outcome({}, <<>>, <<>>, "", <<>>)

NoYears == <<0, 0>>

Cleared ==
    /\ df' = NoTable
    /\ selected_years' = NoYears
    /\ selected_players' = <<>>
    /\ filtered_df' = NoTable
    /\ page' = ""
    /\ viz_type' = ""
    /\ primary_metric' = ""
    /\ secondary_metric' = ""
    /\ metrics_sel' = <<>>
    /\ comparison_method' = ""
    /\ comparison_df' = <<>>
    /\ messages' = {}
    /\ charts' = <<>>
    /\ dataframes' = <<>>
    /\ uncaught' = ""

Init ==
    /\ uploaded_file = NoFile
    /\ pc = "ready"
    /\ df = NoTable
    /\ selected_years = NoYears
    /\ selected_players = <<>>
    /\ filtered_df = NoTable
    /\ page = ""
    /\ viz_type = ""
    /\ primary_metric = ""
    /\ secondary_metric = ""
    /\ metrics_sel = <<>>
    /\ comparison_method = ""
    /\ comparison_df = <<>>
    /\ messages = {}
    /\ charts = <<>>
    /\ dataframes = <<>>
    /\ uncaught = ""

\* the user puts a file in the uploader (line 41); the script reruns
Upload ==
    /\ pc = "ready"
    /\ uploaded_file = NoFile
    /\ \E f \in Files : uploaded_file' = f
    /\ pc' = "load"
    /\ Cleared

\* the user removes the file; the rerun fails the test of line 43 and shows nothing
RemoveFile ==
    /\ pc = "ready"
    /\ uploaded_file # NoFile
    /\ uploaded_file' = NoFile
    /\ pc' = "ready"
    /\ Cleared

\* the user changes a widget; the script reruns from the top
Rerun ==
    /\ pc = "ready"
    /\ uploaded_file # NoFile
    /\ pc' = "load"
    /\ Cleared
    /\ UNCHANGED uploaded_file

\* lines 43-48
LoadData ==
    /\ pc = "load"
    /\ df' = load_data(uploaded_file)
    /\ IF df' = NoTable
       THEN /\ messages' = {Msg("error", "Error loading CSV file", 30)}
            /\ pc' = "ready"
       ELSE /\ messages' = {Msg("success", "Data loaded successfully", 48)}
            /\ pc' = "sidebar"
    /\ UNCHANGED <<uploaded_file, selected_years, selected_players, filtered_df,
                   page, viz_type, primary_metric, secondary_metric, metrics_sel,
                   comparison_method, comparison_df, charts, dataframes, uncaught>>

\* lines 50-72; an exception the script does not catch ends the pass
Sidebar ==
    /\ pc = "sidebar"
    /\ IF "Year" \in df.cols /\ df.rows = <<>>
       THEN \* int(nan) at line 55
            /\ uncaught' = "ValueError"
            /\ pc' = "ready"
            /\ UNCHANGED <<selected_years, selected_players, messages>>
       ELSE /\ IF "Year" \in df.cols
               THEN /\ selected_years' \in SliderValues(min_year(df), max_year(df))
                    /\ messages' = messages
               ELSE /\ selected_years' = NoYears
                    /\ messages' = messages \cup {Msg("warning", "No 'Year' column found in dataset", 62)}
            /\ IF "Player_Name" \in df.cols /\ SortedRaises(unique_players(df))
               THEN /\ uncaught' = "TypeError"
                    /\ pc' = "ready"
                    /\ UNCHANGED selected_players
               ELSE /\ selected_players' \in PlayerSelections(all_players(df))
                    /\ pc' = "filter"
                    /\ UNCHANGED uncaught
    /\ UNCHANGED <<uploaded_file, df, filtered_df, page, viz_type, primary_metric,
                   secondary_metric, metrics_sel, comparison_method, comparison_df, charts,
                   dataframes>>

\* lines 74-81
ApplyFilters ==
    /\ pc = "filter"
    /\ IF "Player_Name" \in df.cols
       THEN /\ filtered_df' = apply_filters(df, selected_years, selected_players)
            /\ pc' = "page"
            /\ UNCHANGED uncaught
       ELSE \* df['Player_Name'] at line 78 or 81
            /\ uncaught' = "KeyError"
            /\ pc' = "ready"
            /\ UNCHANGED filtered_df
    /\ UNCHANGED <<uploaded_file, df, selected_years, selected_players, page, viz_type,
                   primary_metric, secondary_metric, metrics_sel, comparison_method,
                   comparison_df, messages, charts, dataframes>>

\* the rest of the pass shows o and the script ends
Show(o) ==
    /\ messages' = messages \cup o.messages
    /\ charts' = o.charts
    /\ dataframes' = o.dataframes
    /\ uncaught' = o.uncaught
    /\ comparison_df' = o.comparison_df
    /\ pc' = "ready"

\* lines 84-111
DataExplorer ==
    /\ pc = "page"
    /\ page' = "Data Explorer"
    /\ Show(data_explorer)
    /\ UNCHANGED <<uploaded_file, df, selected_years, selected_players, filtered_df,
                   viz_type, primary_metric, secondary_metric, metrics_sel,
                   comparison_method>>

\* the index= of the selectbox of lines 127-131
default_primary(options) ==
    IF "Runs_Scored" \in Range(options) THEN "Runs_Scored"
    ELSE IF options = <<>> THEN "" ELSE options[1]

\* lines 84-87 and 114-309.  A selectbox whose value the chosen kind never reads is
\* left at its default.
PerformanceAnalysis ==
    /\ pc = "page"
    /\ page' = "Performance Analysis"
    /\ IF selected_players = <<>>
       THEN /\ viz_type' = ""
            /\ primary_metric' = ""
            /\ secondary_metric' = ""
            /\ metrics_sel' = <<>>
       ELSE LET options == available_metrics(filtered_df)
            IN  /\ viz_type' \in VizTypes
                /\ primary_metric' \in
                      (IF options = <<>> \/ viz_type' \in MetricSelectKinds
                       THEN {default_primary(options)} ELSE Range(options))
                /\ secondary_metric' \in
                      (IF viz_type' \in {"Scatter Plot", "Combo Chart"}
                       THEN {"None"} \cup Range(options) ELSE {"None"})
                /\ metrics_sel' \in (IF HasMetricSelect(viz_type', selected_players)
                                     THEN MetricSelections(options) ELSE {<<>>})
    /\ Show(performance_analysis(filtered_df, selected_players, viz_type',
                                 primary_metric', secondary_metric', metrics_sel'))
    /\ UNCHANGED <<uploaded_file, df, selected_years, selected_players, filtered_df,
                   comparison_method>>

\* lines 84-87 and 312-425
AdvancedComparisons ==
    /\ pc = "page"
    /\ page' = "Advanced Comparisons"
    /\ IF Len(selected_players) < 2 \/ available_metrics(filtered_df) = <<>>
       THEN /\ metrics_sel' = <<>>
            /\ comparison_method' = ""
            /\ viz_type' = ""
       ELSE /\ metrics_sel' \in MetricSelections(available_metrics(filtered_df))
            /\ comparison_method' \in (IF metrics_sel' # <<>> THEN Methods ELSE {"Mean"})
            /\ viz_type' \in (IF metrics_sel' # <<>> THEN ComparisonVizTypes ELSE {""})
    /\ Show(advanced_comparisons(filtered_df, selected_players, metrics_sel',
                                 comparison_method', viz_type'))
    /\ UNCHANGED <<uploaded_file, df, selected_years, selected_players, filtered_df,
                   primary_metric, secondary_metric>>

Next ==
    \/ Upload
    \/ RemoveFile
    \/ Rerun
    \/ LoadData
    \/ Sidebar
    \/ ApplyFilters
    \/ DataExplorer
    \/ PerformanceAnalysis
    \/ AdvancedComparisons

Spec == Init /\ [][Next]_vars

(***************************************************************************)
(* Properties.                                                             *)
(***************************************************************************)
\* a finished pass that reached the Performance Analysis / Advanced Comparisons page
OnPerformance == pc = "ready" /\ page = "Performance Analysis"

OnAdvanced == pc = "ready" /\ page = "Advanced Comparisons"

\* the messages of the page itself, the load and sidebar messages left out
PageMessages == {m \in messages : m.line >= 84}

PageWarnings == {m \in PageMessages : m.level = "warning"}

ChartKinds == {charts[i].kind : i \in 1..Len(charts)}

\* the pass computed the group-by of the Advanced Comparisons page
ComparisonRan == OnAdvanced /\ Len(selected_players) >= 2 /\ metrics_sel # <<>>

\* the pass reached a radar loop: the Radar Chart kind, or the Radar View tab
RadarBuilt ==
    \/ OnPerformance /\ viz_type = "Radar Chart" /\ metrics_sel # <<>>
    \/ ComparisonRan

\* the selected, named players that have rows in the loaded table and none after the
\* filter
FilteredOut ==
    {p \in Range(selected_players) \ {NoName} :
        p \in unique_players(df) /\ p \notin unique_players(filtered_df)}

\* every Year of the loaded table is a whole number
WholeYears == \A y \in Years(df) : IsInteger(y)

\* C1: whenever a radar chart is built and a selected player has no aggregate row
\* because the year range removed all of that player's rows, the pass raises no
\* exception, reports no error, and shows a radar chart with exactly the traces of
\* the selected players that still have rows.
C1_RadarSkipsFilteredOutPlayer ==
    (RadarBuilt /\ WholeYears /\ FilteredOut # {}) =>
        /\ uncaught = ""
        /\ \A m \in PageMessages : m.level # "error"
        /\ \E i \in 1..Len(charts) :
              /\ charts[i].kind = "Radar Chart"
              /\ {charts[i].traces[k].name : k \in 1..Len(charts[i].traces)}
                   = Range(selected_players) \cap unique_players(filtered_df)

\* C2: every render pass of an uploaded file ends without an uncaught exception and
\* with something on the page: a message, a chart or a table.
C2_NoUncaughtException ==
    (pc = "ready" /\ uploaded_file # NoFile) =>
        /\ uncaught = ""
        /\ messages # {} \/ charts # <<>> \/ dataframes # <<>>

\* the minimum-input precondition of the radar, heatmap and parallel-coordinates kinds
MinimumInput ==
    /\ metrics_sel # <<>>
    /\ Len(selected_players) >= (IF viz_type = "Heatmap" THEN 2 ELSE 1)

\* C3: on the Performance Analysis page, for the kinds radar, heatmap and
\* parallel-coordinates, a chart of the kind is shown exactly when the minimum-input
\* precondition holds, and otherwise a warning is shown and no chart.
C3_ChartOrWarning ==
    (/\ OnPerformance
     /\ NoName \notin Range(selected_players)
     /\ available_metrics(filtered_df) # <<>>
     /\ viz_type \in MetricSelectKinds) =>
        IF MinimumInput
        THEN viz_type \in ChartKinds
        ELSE charts = <<>> /\ PageWarnings # {}

\* C4: in Advanced Comparisons with at least two players, a numeric metric available
\* and no comparison metric selected, nothing is aggregated and the page shows a
\* message that asks for a metric selection.
C4_NoMetricsSelectedReported ==
    (/\ OnAdvanced
     /\ Len(selected_players) >= 2
     /\ available_metrics(filtered_df) # <<>>
     /\ metrics_sel = <<>>) =>
        /\ comparison_df = <<>>
        /\ charts = <<>>
        /\ PageMessages # {}

\* the group of player p has no non-missing value in column col of the filtered table
NoValues(p, col) ==
    \A k \in 1..Len(filtered_df.rows) :
        filtered_df.rows[k].Player_Name = p => IsNaN(Cell(filtered_df.rows[k], col))

\* C5: for every method, every player group and every selected metric, a group with
\* no non-missing value for the metric has a missing aggregate cell.
C5_EmptyGroupIsMissing ==
    ComparisonRan =>
        \A i \in 1..Len(comparison_df) : \A j \in 1..Len(metrics_sel) :
            NoValues(comparison_df[i].Player_Name, metrics_sel[j])
                => IsNaN(comparison_df[i].vals[j])

\* the pass got past the filter of lines 75-81
Filtered == filtered_df.loaded

\* the sidebar ran to its end: neither line 55 nor line 66 raised
SidebarDone == df.loaded /\ pc \in {"filter", "page", "ready"} /\ uncaught \notin {"ValueError", "TypeError"}

\* the slider is at its bounds and every distinct player of the table is selected
FullSelection ==
    /\ "Year" \in df.cols => selected_years = <<min_year(df), max_year(df)>>
    /\ Range(selected_players) = unique_players(df)

\* C6: filtering with the full year range of the slider and every distinct player
\* selected yields the loaded table: same columns, same rows, same values.
C6_FullSelectionIsIdentity ==
    (Filtered /\ FullSelection /\ NoName \notin unique_players(df)) => filtered_df = df

\* C7: filtering with no player selected yields a zero-row table and no error; and
\* when the filtered table has zero rows the aggregation of Advanced Comparisons
\* yields zero aggregate rows and the page reports no error.
C7_EmptySelectionIsNoError ==
    /\ (SidebarDone /\ pc = "ready" /\ "Player_Name" \in df.cols /\ selected_players = <<>>) =>
          /\ uncaught = ""
          /\ Filtered
          /\ filtered_df.rows = <<>>
    /\ (ComparisonRan /\ filtered_df.rows = <<>>) =>
          /\ comparison_df = <<>>
          /\ uncaught = ""
          /\ \A m \in PageMessages : m.level # "error"

\* C8: on the Performance Analysis page with a player selected, a scatter plot or a
\* combo chart requested with the secondary metric 'None' shows the warning that a
\* secondary metric is required and no chart; with any other secondary metric the
\* chart is shown and no warning.
C8_SecondaryMetricRequired ==
    (/\ OnPerformance
     /\ Len(selected_players) >= 1
     /\ viz_type \in {"Scatter Plot", "Combo Chart"}) =>
        /\ uncaught = ""
        /\ IF secondary_metric = "None"
           THEN /\ charts = <<>>
                /\ \E m \in PageWarnings :
                      m.text \in {"Please select a secondary metric for scatter plot",
                                  "Please select a secondary metric for combo chart"}
           ELSE /\ ChartKinds = {viz_type}
                /\ PageWarnings = {}

C8_Witness ==
    /\ OnPerformance
    /\ viz_type = "Scatter Plot"
    /\ secondary_metric = "None"
    /\ charts = <<>>
    /\ PageWarnings # {}

\* the rows of player p in the filtered table whose cell in column col is present
PresentRows(p, col) ==
    {k \in 1..Len(filtered_df.rows) :
        /\ filtered_df.rows[k].Player_Name = p
        /\ ~IsNaN(Cell(filtered_df.rows[k], col))}

RECURSIVE TotalOf(_, _)
TotalOf(K, col) ==
    IF K = {} THEN Num(0)
    ELSE LET k == CHOOSE x \in K : TRUE
         IN  Add(Cell(filtered_df.rows[k], col), TotalOf(K \ {k}, col))

Eq(x, y) == ~IsNaN(x) /\ ~IsNaN(y) /\ x.n * y.d = y.n * x.d

\* x is the reduction by method of the present cells of player p in column col
IsReduction(x, method, p, col) ==
    LET K == PresentRows(p, col)
        V == {Cell(filtered_df.rows[k], col) : k \in K}
    IN  CASE method = "Sum"  -> Eq(x, TotalOf(K, col))
          [] K = {}          -> IsNaN(x)
          [] method = "Mean" -> Eq([n |-> x.n * Cardinality(K), d |-> x.d], TotalOf(K, col))
          [] method = "Max"  -> x \in V /\ \A v \in V : Le(v, x)
          [] OTHER           -> x \in V /\ \A v \in V : Le(x, v)

\* the position of a name in the order of sorted()
Rank(name) == CHOOSE i \in 1..Len(Alphabet) : Alphabet[i] = name

\* the aggregate of player p in the j-th selected metric is the number v
CellIs(p, col, v) ==
    \E i \in 1..Len(comparison_df) : \E j \in 1..Len(metrics_sel) :
        /\ comparison_df[i].Player_Name = p
        /\ metrics_sel[j] = col
        /\ comparison_df[i].vals[j] = Num(v)

ScenarioRun ==
    /\ ComparisonRan
    /\ uploaded_file.rows = ScenarioRows
    /\ selected_years = <<2020, 2020>>
    /\ selected_players = <<"A", "B">>
    /\ comparison_method = "Mean"
    /\ "Runs_Scored" \in Range(metrics_sel)

ReductionRun ==
    /\ ComparisonRan
    /\ uploaded_file.rows = ReductionRows
    /\ selected_years = <<2020, 2021>>
    /\ selected_players = <<"A", "B">>
    /\ "Runs_Scored" \in Range(metrics_sel)

\* C9: the comparison table has exactly one row for each distinct Player_Name of the
\* filtered table, in sorted order, and each cell is the method's reduction of that
\* player's non-missing values among the filtered rows; the two worked examples of
\* the design give the values it states.
C9_ComparisonTable ==
    /\ ComparisonRan =>
          /\ {comparison_df[i].Player_Name : i \in 1..Len(comparison_df)}
                = unique_players(filtered_df)
          /\ Len(comparison_df) = Cardinality(unique_players(filtered_df))
          /\ \A i, k \in 1..Len(comparison_df) :
                i < k => Rank(comparison_df[i].Player_Name) < Rank(comparison_df[k].Player_Name)
          /\ \A i \in 1..Len(comparison_df) :
                /\ Len(comparison_df[i].vals) = Len(metrics_sel)
                /\ \A j \in 1..Len(metrics_sel) :
                      IsReduction(comparison_df[i].vals[j], comparison_method,
                                  comparison_df[i].Player_Name, metrics_sel[j])
    /\ ScenarioRun =>
          /\ Len(filtered_df.rows) = 2
          /\ CellIs("A", "Runs_Scored", 100)
          /\ CellIs("B", "Runs_Scored", 80)
    /\ ReductionRun =>
          /\ CellIs("B", "Runs_Scored", 5)
          /\ CASE comparison_method = "Mean" -> CellIs("A", "Runs_Scored", 15)
               [] comparison_method = "Sum"  -> CellIs("A", "Runs_Scored", 30)
               [] comparison_method = "Max"  -> CellIs("A", "Runs_Scored", 20)
               [] OTHER                      -> CellIs("A", "Runs_Scored", 10)

C9_Witness ==
    /\ ScenarioRun
    /\ metrics_sel = <<"Runs_Scored">>
    /\ Len(comparison_df) = 2

RECURSIVE IsSubSeq(_, _)
\* a is b with some of its elements left out
IsSubSeq(a, b) ==
    IF a = <<>> THEN TRUE
    ELSE IF b = <<>> THEN FALSE
    ELSE IF Head(a) = Head(b) THEN IsSubSeq(Tail(a), Tail(b))
    ELSE IsSubSeq(a, Tail(b))

\* the selections whose year range lies within the current one and whose players
\* are among the current ones
NarrowerYears == SliderValues(selected_years[1], selected_years[2])

NarrowerPlayers == PlayerSelections(selected_players)

\* C10: for a selection S2 whose year range is contained in that of the current
\* selection S1 and whose players are a subset of S1's, the filtered table of S2 is a
\* sub-collection of the filtered table of S1 and has no more rows; and after the
\* filter the loaded table is still what load_data returned.
C10_FilterMonotone ==
    Filtered =>
        /\ \A y2 \in NarrowerYears : \A p2 \in NarrowerPlayers :
              LET f2 == apply_filters(df, y2, p2)
              IN  /\ IsSubSeq(f2.rows, filtered_df.rows)
                  /\ Len(f2.rows) <= Len(filtered_df.rows)
        /\ df = load_data(uploaded_file)

C10_Witness ==
    /\ Filtered
    /\ Len(filtered_df.rows) = 2
    /\ \E y2 \in NarrowerYears : \E p2 \in NarrowerPlayers :
          /\ p2 # selected_players
          /\ Len(apply_filters(df, y2, p2).rows) = 1

\* the rows of the uploaded file that the load keeps: all of them when the file has
\* no Year column, else those whose Year cell is a number
KeptRows ==
    {k \in 1..Len(uploaded_file.rows) :
        "Year" \in uploaded_file.cols => uploaded_file.rows[k].Year.t = "num"}

\* the i-th kept row, counted in the order of the file
KeptRow(i) == CHOOSE k \in KeptRows : Cardinality({j \in KeptRows : j <= k}) = i

\* the number a raw cell of a present column is read as
ReadAs(cell, x) == IF cell.t = "num" THEN x = cell.v ELSE IsNaN(x)

\* the load succeeded in this pass
Loaded == df.loaded

\* C11: after a successful load the table is exactly the input rows whose Year is a
\* number (all rows when there is no Year column), in their order, each cell read as
\* its number and a numeric cell that is no number read as missing, its row kept; so
\* no row of the loaded or the filtered table has a missing Year.  When parsing
\* fails the pass shows the loader's error, has no table, and evaluates no filter,
\* page or chart.
C11_LoaderContract ==
    /\ Loaded =>
          /\ uploaded_file.kind = "csv"
          /\ df.cols = uploaded_file.cols
          /\ Len(df.rows) = Cardinality(KeptRows)
          /\ \A i \in 1..Len(df.rows) :
                LET raw == uploaded_file.rows[KeptRow(i)]
                IN  /\ df.rows[i].Player_Name = raw.Player_Name
                    /\ "Year" \in df.cols => ReadAs(raw.Year, df.rows[i].Year)
                    /\ "Runs_Scored" \in df.cols =>
                          ReadAs(raw.Runs_Scored, df.rows[i].Runs_Scored)
          /\ "Year" \in df.cols =>
                /\ \A i \in 1..Len(df.rows) : ~IsNaN(df.rows[i].Year)
                /\ \A i \in 1..Len(filtered_df.rows) : ~IsNaN(filtered_df.rows[i].Year)
    /\ (uploaded_file.kind = "garbage" /\ pc # "load") =>
          /\ pc = "ready"
          /\ df = NoTable
          /\ messages = {Msg("error", "Error loading CSV file", 30)}
          /\ filtered_df = NoTable
          /\ page = ""
          /\ charts = <<>>
          /\ dataframes = <<>>
          /\ uncaught = ""

\* a file of two rows: the first has a Year that is no number and is dropped, the
\* second has a Runs_Scored that is no number and is kept with the cell missing
C11_Witness ==
    /\ Loaded
    /\ "Year" \in df.cols
    /\ "Runs_Scored" \in df.cols
    /\ Len(uploaded_file.rows) = 2
    /\ uploaded_file.rows[1].Year.t = "text"
    /\ uploaded_file.rows[2].Year.t = "num"
    /\ uploaded_file.rows[2].Runs_Scored.t = "text"
    /\ Len(df.rows) = 1
    /\ IsNaN(df.rows[1].Runs_Scored)

====
